---- MODULE Spec2Model ----
(***************************************************************************)
(* Honos Sync (Obsidian plugin, V2 "Enforced"): the reconciliation pass    *)
(* SyncPlugin.performSync of src/main.ts, the MetadataManager, and the     *)
(* remote store seen through NetworkClient (V2).                           *)
(*                                                                         *)
(* JavaScript runs one callback at a time, so everything between two       *)
(* awaits is one atomic action; every await of performSync is a place      *)
(* where the user, the timer, the debouncer and other writers of the       *)
(* remote store may act.                                                   *)
(***************************************************************************)
EXTENDS Integers, Sequences, FiniteSets, TLC

\* ------------------------------------------------------------------ bounds

MaxNow == 1             \* conflict renames (distinct Date.now() stamps)
MaxEdits == 1           \* local user edits (create / modify / delete)
MaxRemoteWrites == 1    \* writes of other clients to the remote store
MaxFail == 2            \* remote calls or file operations that fail
MaxRevision == 2        \* revisions in the entries handed to updateMetadata

\* the sockets a WebSocketClient may create
MaxSockets == 3

\* the longest path given to getConflictPath, in characters
MaxPathLen == 5

\* the reconnect delay (5000 ms) in ticks of the clock
ReconnectTicks == 2

\* the debounce window (5000 ms) in ticks of the clock
DebounceTicks == 2

\* ------------------------------------------------------------ the universe

Devices == {"A", "B"}
Slots == {1, 2}                  \* performSync invocations in flight at once
BaseSeq == <<"a", "b">>          \* the vault's file names, in listing order
Bases == {BaseSeq[i] : i \in 1..Len(BaseSeq)}
Contents == {<<"x">>, <<"y">>}   \* texts the users type (a sequence of lines)
OtherContents == {<<"x">>, <<"z">>}   \* texts other clients upload

OrigPath(b) == [base |-> b, ts |-> 0]
AllPaths == [base : Bases, ts : 0..MaxNow]
UserPaths == {OrigPath(b) : b \in Bases}
NoPath == [base |-> "", ts |-> 0]

BaseIdx(b) == CHOOSE i \in 1..Len(BaseSeq) : BaseSeq[i] = b
Rank(p) == p.ts * Len(BaseSeq) + BaseIdx(p.base)
\* the iteration order of `for (const x of list)`: the listing's order
First(S) == CHOOSE p \in S : \A q \in S : Rank(p) <= Rank(q)

Remove(f, p) == [q \in (DOMAIN f) \ {p} |-> f[q]]
Put(f, p, v) == [q \in (DOMAIN f) \cup {p} |-> IF q = p THEN v ELSE f[q]]
Empty == [q \in {} |-> 0]

\* ------------------------------------------------------------------- utils

\* calculateHash: SHA-256 of the text, hex encoded; never the empty string
calculateHash(content) == <<"sha256", content>>
EmptyHash == <<>>

\* getConflictPath: <base>.conflict-<Date.now()>.<ext>
getConflictPath(path, stamp) == [base |-> path.base, ts |-> stamp]

\* ------------------------------------------------------------ timestamps

\* the values of an updatedAt field
Stamps == {1, 2}

\* FileMetadata.updatedAt, RemoteFile.updatedAt: a record with its timestamp
Stamped(r, t) ==
    [k \in DOMAIN r \cup {"updatedAt"} |-> IF k = "updatedAt" THEN t ELSE r[k]]

\* the records of a table (SyncMeta, a listing), each with its timestamp
StampAll(f, ts) == [p \in DOMAIN f |-> Stamped(f[p], ts[p])]

\* a table without its timestamps
Unstamped(f) ==
    [p \in DOMAIN f |-> [k \in DOMAIN f[p] \ {"updatedAt"} |-> f[p][k]]]

\* ------------------------------------------------------ paths as strings

\* a string is the sequence of its characters; "conflict-" and a timestamp's
\* digits, which hold neither "." nor "/", are one element each
Chars == {"a", ".", "/"}

RECURSIVE StringsOf(_)
StringsOf(n) ==
    IF n = 0 THEN {<<>>}
    ELSE {Append(t, c) : t \in StringsOf(n - 1), c \in Chars}

\* the paths of files in a vault: folder names and a file name, none empty
FilePaths ==
    {t \in UNION {StringsOf(n) : n \in 1..MaxPathLen} :
        /\ t[1] # "/" /\ t[Len(t)] # "/"
        /\ \A i \in 1..(Len(t) - 1) : ~(t[i] = "/" /\ t[i + 1] = "/")}

StampTexts == {<<"1">>, <<"2">>}

\* String.prototype.lastIndexOf: the index from 0 of the last c, -1 if none
lastIndexOf(t, c) ==
    IF \E i \in 1..Len(t) : t[i] = c
    THEN (CHOOSE i \in 1..Len(t) :
              t[i] = c /\ \A j \in (i + 1)..Len(t) : t[j] # c) - 1
    ELSE -1

\* String.prototype.substring(from, to): indexes below 0 count as 0
substring(t, from, to) ==
    LET lo == IF from < 0 THEN 0 ELSE from
        hi == IF to < 0 THEN 0 ELSE to
    IN  IF lo <= hi THEN SubSeq(t, lo + 1, hi) ELSE SubSeq(t, hi + 1, lo)

\* path.split(c).pop(): what follows the last c, the whole string if none
splitPop(t, c) == SubSeq(t, lastIndexOf(t, c) + 2, Len(t))

\* lines 278-282: getConflictPath on the path's characters
getConflictPathOf(path, stamp) ==
    substring(path, 0, lastIndexOf(path, "."))
        \o <<".", "conflict-">> \o stamp \o <<".">> \o splitPop(path, ".")

\* the folder of a path, its last "/" included, and its file name
FolderOf(t) == SubSeq(t, 1, lastIndexOf(t, "/") + 1)
NameOf(t) == splitPop(t, "/")

\* ---------------------------------------------------------- MetadataManager

getMetadata(m, path) == IF path \in DOMAIN m THEN {m[path]} ELSE {}

\* the spread the other way round: the fields of the existing entry win
updateMetadataKeep(m, path, meta) ==
    LET current == IF path \in DOMAIN m
                   THEN m[path]
                   ELSE [hash |-> EmptyHash, revision |-> 0, parentRevision |-> 0]
        merged == [k \in DOMAIN current |->
                     IF k \in DOMAIN current THEN current[k] ELSE meta[k]]
    IN  Put(m, path, merged)

updateMetadata(m, path, meta) ==
    LET current == IF path \in DOMAIN m
                   THEN m[path]
                   ELSE [hash |-> EmptyHash, revision |-> 0, parentRevision |-> 0]
        merged == [k \in DOMAIN current |->
                     IF k \in DOMAIN meta THEN meta[k] ELSE current[k]]
    IN  Put(m, path, merged)

\* the metadata written without the revision pulled
downloadMetaUnversioned(rf) ==
    [hash |-> rf.hash, revision |-> 0, parentRevision |-> 0]

\* the metadata of a pulled record with the parent revision left at 0
downloadMetaNoParent(rf) ==
    [hash |-> rf.hash, revision |-> rf.revision, parentRevision |-> 0]

\* lines 232-238: the metadata of a pulled record
downloadMeta(rf) ==
    [hash |-> rf.hash, revision |-> rf.revision, parentRevision |-> rf.revision]

\* deleteMetadata left out
keepMetadata(m, path) == m

deleteMetadata(m, path) == Remove(m, path)

\* lines 224, 254, 262: a response that is neither a success nor a conflict
\* takes no branch: the metadata stays as it is
unconfirmed(m, path) == m

\* ------------------------------------------------------------------- state

VARIABLES
    token,      \* [d] settings.token is non-empty
    isSyncing,  \* [d] the guard
    status,     \* [d] the status bar's text
    timerOn,    \* [d] syncIntervalId !== null
    debounce,   \* [d] a debounced performSync is pending
    meta,       \* [d] MetadataManager.metadata: path -> FileMetadata
    saved,      \* [d] settings.filesMetadata as last written by saveData
    local,      \* [d] the vault: path -> content
    pass,       \* [d][s] a performSync invocation between its awaits
    remote,     \* the store: path -> its revisions, oldest first
    now,        \* conflict stamps handed out so far
    edits, rwrites, fails,   \* what the environment has done so far
    \* history, read by no action:
    prev,       \* [d] "completed": the last pass ran to its end and nothing
                \*     changed, locally or remotely, since it began;
                \*     "clean": moreover each of its calls succeeded, none
                \*     was answered with a conflict and it pulled no deleted
                \*     record; "none" otherwise
    tomb,       \* [d] path -> the deleted revision a listing of d showed, and
                \*     whether the user created a file at the path since
    exitAt,     \* [d] where the last pass returned: the await whose failure
                \*     the catch block took, or "end"
    owed,       \* [d] the <<action, path>> whose call returned a failure in
                \*     a pass under which nothing had changed, nothing having
                \*     changed since
    debouncer,  \* [d] the debounced function's timer: the ticks left until its
                \*     callback runs (read while `debounce` is set); and, as
                \*     history, the ticks since debouncedSync was last called
                \*     (-1: never), the calls of performSync the debouncer has
                \*     made since then, the calls of debouncedSync that found
                \*     its timer already running, that one included, and
                \*     whether the guard refused the debouncer's last call
    wsClient,   \* the WebSocketClient, its sockets and its timers
    conflictCopy  \* a call of getConflictPath: the path given and the result

vars == <<token, isSyncing, status, timerOn, debounce, meta, saved, local,
          pass, remote, now, edits, rwrites, fails, prev, tomb, exitAt, owed,
          debouncer, wsClient, conflictCopy>>

\* pc: the await the invocation is suspended at. meta0 (the metadata when the
\* pass began), tried and pushed (the paths whose download and upload it
\* requested), ok (no call failed or conflicted, no deleted record was pulled),
\* quiet (nothing changed under the pass) and raced (the paths whose file the
\* user wrote while the pass awaited their download or upload) are history.
IdlePass == [pc |-> "idle", remoteFiles |-> Empty, localFiles |-> {},
             dl |-> {}, ul |-> {}, cur |-> NoPath, content |-> <<>>,
             parentRevision |-> 0, target |-> NoPath, meta0 |-> Empty,
             tried |-> {}, pushed |-> {}, ok |-> TRUE, quiet |-> TRUE,
             raced |-> {}]

InFlight(d) == {s \in Slots : pass[d][s].pc # "idle"}

\* history: a local or remote change seen from the devices ds
Disturb(ps, ds) ==
    [e \in Devices |-> [s \in Slots |->
        IF e \in ds /\ ps[e][s].pc # "idle"
        THEN [ps[e][s] EXCEPT !.quiet = FALSE] ELSE ps[e][s]]]
\* history: the user wrote the file of p on d
Raced(ps, d, p) ==
    [ps EXCEPT ![d] = [s \in Slots |->
        IF ps[d][s].pc \in {"download", "upload"} /\ ps[d][s].cur = p
        THEN [ps[d][s] EXCEPT !.raced = @ \cup {p}] ELSE ps[d][s]]]
Forget(ds) == [e \in Devices |-> IF e \in ds THEN "none" ELSE prev[e]]
Settle(ds) == [e \in Devices |-> IF e \in ds THEN {} ELSE owed[e]]

\* ---------------------------------------------------------------- debouncer

\* debounce(cb, 5000, false): a call that finds the timer running leaves it
keepTimer(pending, timer) == IF pending THEN timer ELSE DebounceTicks

\* line 25: debounce(cb, 5000, true): every call starts the window afresh
resetTimer(pending, timer) == DebounceTicks

\* debouncedSync() is called
Schedule(pending, q) ==
    [timer |-> resetTimer(pending, q.timer), since |-> 0, calls |-> 0,
     burst |-> IF pending THEN (IF q.burst < 2 THEN q.burst + 1 ELSE 2) ELSE 1,
     refused |-> FALSE]

\* the debounced callback runs
Called(q, held) ==
    [q EXCEPT !.calls = IF @ < 2 THEN @ + 1 ELSE 2, !.refused = held]

\* ------------------------------------------------------- WebSocketClient

Sockets == 1..MaxSockets

\* the client after construction. ws: the socket this.ws refers to (0: null);
\* reconnectTimer: "null" or "set", a handle that may be of a timeout that has
\* run; handleLive: the handle's timeout is pending (it is the last of timers);
\* timers: the ticks left of the pending reconnect timeouts, oldest first;
\* heartbeats: the intervals startHeartbeat has set; sock: the readyState of
\* the sockets created so far, made their number. History: disconnected
\* (disconnect() was called and connect() has not been since), sinceFirst and
\* sinceLast (the ticks since the first and the last close or failure that no
\* reconnect attempt and no disconnect() has followed; -1: there is none).
NewClient ==
    [ws |-> 0, isConnecting |-> FALSE, reconnectTimer |-> "null",
     handleLive |-> FALSE, timers |-> <<>>, heartbeats |-> 0,
     sock |-> [i \in Sockets |-> "none"], made |-> 0,
     disconnected |-> FALSE, sinceFirst |-> -1, sinceLast |-> -1]

Front(q) == SubSeq(q, 1, Len(q) - 1)

\* a handle that is never cleared
clearTimeoutNever(timers, live) == timers

\* clearTimeout(this.reconnectTimer): a timeout that has run is left alone
clearTimeout(timers, live) == IF live THEN Front(timers) ELSE timers

\* lines 95-104
scheduleReconnect(c) ==
    [c EXCEPT !.timers = Append(IF c.reconnectTimer = "set"
                                THEN clearTimeout(c.timers, c.handleLive)
                                ELSE c.timers,
                                ReconnectTicks),
              !.reconnectTimer = "set",
              !.handleLive = TRUE]

\* history: a close or a failure to open took place
Closed(c) ==
    [c EXCEPT !.sinceFirst = IF @ = -1 THEN 0 ELSE @, !.sinceLast = 0]

\* history: a reconnect attempt or disconnect() answers the closes so far
Answered(c) == [c EXCEPT !.sinceFirst = -1, !.sinceLast = -1]

\* lines 16-78: connect(), with the outcomes of new WebSocket(url): a socket
\* in the CONNECTING state, or an exception, which the catch block takes
connect(c) ==
    IF c.isConnecting \/ (c.ws # 0 /\ c.sock[c.ws] = "OPEN")
    THEN {c}
    ELSE {[c EXCEPT !.isConnecting = TRUE, !.ws = c.made + 1,
                    !.made = c.made + 1, !.sock[c.made + 1] = "CONNECTING"] :
             x \in IF c.made < MaxSockets THEN {1} ELSE {}}
         \cup {Closed(scheduleReconnect([c EXCEPT !.isConnecting = FALSE]))}

\* lines 29-40: the onopen handler (startHeartbeat: lines 86-93)
onopen(c) == [c EXCEPT !.isConnecting = FALSE, !.heartbeats = @ + 1]

\* lines 60-72: the onerror and onclose handlers
onclose(c) == scheduleReconnect([c EXCEPT !.isConnecting = FALSE])

\* lines 106-116
disconnect(c) ==
    LET t == IF c.reconnectTimer = "set"
             THEN [c EXCEPT !.timers = clearTimeout(c.timers, c.handleLive),
                            !.reconnectTimer = "null", !.handleLive = FALSE]
             ELSE c
    IN  IF t.ws # 0
        THEN [t EXCEPT !.ws = 0,
                       !.sock[t.ws] = IF @ \in {"CONNECTING", "OPEN"}
                                      THEN "CLOSING" ELSE @]
        ELSE t

\* ------------------------------------------------------------ remote store

currentRevision(path) == IF path \in DOMAIN remote THEN Len(remote[path]) ELSE 0

\* one RemoteFile of the listing
RemoteFile(path) ==
    LET v == remote[path][Len(remote[path])]
    IN  [hash |-> IF v.isDeleted THEN EmptyHash ELSE calculateHash(v.content),
         revision |-> Len(remote[path]),
         isDeleted |-> v.isDeleted]

listFiles == [p \in DOMAIN remote |-> RemoteFile(p)]

\* an accepted write: the store assigns the next revision of the path
Accept(path, content, deleted) ==
    Put(remote, path,
        (IF path \in DOMAIN remote THEN remote[path] ELSE <<>>)
            \o <<[content |-> content, isDeleted |-> deleted]>>)

\* --------------------------------------------------------------- the pass

\* the catch block with no finally after it
AbortGuardKept(d, s) ==
    /\ status' = [status EXCEPT ![d] = "Error"]
    /\ UNCHANGED isSyncing
    /\ pass' = [pass EXCEPT ![d][s] = IdlePass]
    /\ prev' = [prev EXCEPT ![d] = "none"]
    /\ exitAt' = [exitAt EXCEPT ![d] = pass[d][s].pc]

\* catch + finally of performSync: an exception ends the pass, nothing saved
Abort(d, s) ==
    /\ status' = [status EXCEPT ![d] = "Error"]
    /\ isSyncing' = [isSyncing EXCEPT ![d] = FALSE]
    /\ pass' = [pass EXCEPT ![d][s] = IdlePass]
    /\ prev' = [prev EXCEPT ![d] = "none"]
    /\ exitAt' = [exitAt EXCEPT ![d] = pass[d][s].pc]

\* the finally block after the try block ran to its end
Finally(d, s) ==
    /\ status' = [status EXCEPT ![d] = IF status[d] = "Error" THEN "Error" ELSE "Idle"]
    /\ isSyncing' = [isSyncing EXCEPT ![d] = FALSE]
    /\ pass' = [pass EXCEPT ![d][s] = IdlePass]
    /\ prev' = [prev EXCEPT ![d] = IF ~pass[d][s].quiet THEN "none"
                                   ELSE IF pass[d][s].ok THEN "clean"
                                   ELSE "completed"]
    /\ exitAt' = [exitAt EXCEPT ![d] = "end"]

\* the download condition with >= for >
NeedsDownloadOrEqual(m, rf, p) ==
    p \notin DOMAIN m \/ rf[p].revision >= m[p].revision

\* last writer wins: the remote record is pulled when it is the younger one
NeedsDownloadNewer(m, rf, p) ==
    \/ p \notin DOMAIN m
    \/ /\ "updatedAt" \in DOMAIN rf[p] \cap DOMAIN m[p]
       /\ rf[p].updatedAt > m[p].updatedAt

\* line 168: the remote record must be pulled
NeedsDownload(m, rf, p) == p \notin DOMAIN m \/ rf[p].revision > m[p].revision

\* the upload condition left out
NeedsUploadAlways(m, rf, p, hash) == TRUE

\* lines 183-188: the local file is pushed (content changed, remote not ahead)
NeedsUpload(m, rf, p, hash) ==
    /\ p \notin DOMAIN m \/ m[p].hash # hash
    /\ ~(p \in DOMAIN rf /\ p \in DOMAIN m /\ rf[p].revision > m[p].revision)

\* the uploads loop up to its next await: vault.read of the next file, or,
\* the list being exhausted, saveSettings
ContinueUploads(ps) ==
    IF ps.ul # {}
    THEN [ps EXCEPT !.pc = "read", !.cur = First(ps.ul),
                    !.ul = ps.ul \ {First(ps.ul)}]
    ELSE [ps EXCEPT !.pc = "save", !.cur = NoPath]

\* the downloads loop left at its first record: the pass goes on to the uploads
SkipDownloads(m, ps) == ContinueUploads([ps EXCEPT !.dl = {}])

\* the downloads loop up to its next await: downloadFile of the next record
\* that must be pulled, or, there being none, the uploads loop
ContinueDownloads(m, ps) ==
    LET todo == {p \in ps.dl : NeedsDownload(m, ps.remoteFiles, p)}
    IN  IF todo # {}
        THEN [ps EXCEPT !.pc = "download", !.cur = First(todo),
                        !.dl = {q \in ps.dl : Rank(q) > Rank(First(todo))},
                        !.tried = @ \cup {First(todo)}]
        ELSE ContinueUploads([ps EXCEPT !.dl = {}])

\* the guard check left out
GuardNeverHeld(d) == FALSE

\* lines 136-140: the guard check at the entry of performSync
GuardHeld(d) == isSyncing[d]

\* performSync without its `if (this.isSyncing) return` block
performSyncUnguarded(d) ==
    IF ~token[d]
    THEN UNCHANGED <<isSyncing, status, pass>>
    ELSE /\ InFlight(d) # Slots
         /\ LET s == CHOOSE s \in Slots \ InFlight(d) :
                        \A t \in Slots \ InFlight(d) : s <= t
            IN  pass' = [pass EXCEPT ![d][s] =
                            [IdlePass EXCEPT !.pc = "list", !.meta0 = meta[d]]]
         /\ isSyncing' = [isSyncing EXCEPT ![d] = TRUE]
         /\ status' = [status EXCEPT ![d] = "Syncing..."]

\* performSync without its `if (!this.settings.token) return` block
performSyncNoToken(d) ==
    IF GuardHeld(d)
    THEN UNCHANGED <<isSyncing, status, pass>>
    ELSE /\ InFlight(d) # Slots
         /\ LET s == CHOOSE s \in Slots \ InFlight(d) :
                        \A t \in Slots \ InFlight(d) : s <= t
            IN  pass' = [pass EXCEPT ![d][s] =
                            [IdlePass EXCEPT !.pc = "list", !.meta0 = meta[d]]]
         /\ isSyncing' = [isSyncing EXCEPT ![d] = TRUE]
         /\ status' = [status EXCEPT ![d] = "Syncing..."]

\* performSync up to its first await (listFiles)
performSync(d) ==
    IF ~token[d] \/ GuardHeld(d)
    THEN UNCHANGED <<isSyncing, status, pass>>
    ELSE /\ InFlight(d) # Slots
         /\ LET s == CHOOSE s \in Slots \ InFlight(d) :
                        \A t \in Slots \ InFlight(d) : s <= t
            IN  pass' = [pass EXCEPT ![d][s] =
                            [IdlePass EXCEPT !.pc = "list", !.meta0 = meta[d]]]
         /\ isSyncing' = [isSyncing EXCEPT ![d] = TRUE]
         /\ status' = [status EXCEPT ![d] = "Syncing..."]

\* the ribbon icon and the 'Sync vault now' command
ManualSync(d) ==
    /\ performSync(d)
    /\ UNCHANGED <<token, timerOn, debounce, meta, saved, local, remote, now,
                   edits, rwrites, fails, prev, tomb, exitAt, owed,
                   debouncer, wsClient, conflictCopy>>

\* the setInterval callback of startAutoSync
TimerFire(d) ==
    /\ timerOn[d]
    /\ IF token[d] /\ ~isSyncing[d]
       THEN performSync(d)
       ELSE UNCHANGED <<isSyncing, status, pass>>
    /\ UNCHANGED <<token, timerOn, debounce, meta, saved, local, remote, now,
                   edits, rwrites, fails, prev, tomb, exitAt, owed,
                   debouncer, wsClient, conflictCopy>>

\* the debounced callback, 5 s after the last vault event
DebounceFire(d) ==
    /\ debounce[d]
    /\ debounce' = [debounce EXCEPT ![d] = FALSE]
    /\ debouncer' = [debouncer EXCEPT ![d] = Called(@, token[d] /\ GuardHeld(d))]
    /\ performSync(d)
    /\ UNCHANGED <<token, timerOn, meta, saved, local, remote, now,
                   edits, rwrites, fails, prev, tomb, exitAt, owed, wsClient, conflictCopy>>

\* a call that fails (a transport error, a throwing file operation)
Fails == fails < MaxFail /\ fails' = fails + 1

\* history: the deleted records of a listing
Observe(t, rf) ==
    [p \in {q \in DOMAIN rf : rf[q].isDeleted} |->
        IF p \in DOMAIN t /\ t[p].revision = rf[p].revision
        THEN t[p]
        ELSE [revision |-> rf[p].revision, recreated |-> FALSE]]

\* listFiles returns; on success the local listing is taken in the same turn
ListFilesReturn(d, s) ==
    /\ pass[d][s].pc = "list"
    /\ \/ /\ pass' = [pass EXCEPT ![d][s] =
                        ContinueDownloads(meta[d],
                            [@ EXCEPT !.remoteFiles = listFiles,
                                      !.localFiles = DOMAIN local[d],
                                      !.dl = DOMAIN remote,
                                      !.ul = DOMAIN local[d]])]
          /\ tomb' = [tomb EXCEPT ![d] = Observe(@, listFiles)]
          /\ UNCHANGED <<isSyncing, status, fails, prev, exitAt>>
       \/ /\ Fails
          /\ Abort(d, s)
          /\ UNCHANGED tomb
    /\ UNCHANGED <<token, timerOn, debounce, meta, saved, local, remote, now,
                   edits, rwrites, owed,
                   debouncer, wsClient, conflictCopy>>

\* downloadFile(path, revision) returns. What the store answers for a deleted
\* revision is not fixed by the client: the answer carries no `file.content`,
\* or an empty one.
DownloadReturn(d, s) ==
    LET ps == pass[d][s]
        p == ps.cur
        v == remote[p][ps.remoteFiles[p].revision]
    IN  /\ ps.pc = "download"
        /\ \/ /\ pass' = [pass EXCEPT ![d][s] =
                            [ps EXCEPT !.pc = "write", !.content = v.content,
                                       !.ok = @ /\ ~v.isDeleted]]
              /\ UNCHANGED <<fails, meta, owed>>
           \/ /\ IF v.isDeleted THEN UNCHANGED fails ELSE Fails
              /\ meta' = [meta EXCEPT ![d] = unconfirmed(@, p)]
              /\ pass' = [pass EXCEPT ![d][s] =
                            ContinueDownloads(unconfirmed(meta[d], p),
                                              [ps EXCEPT !.ok = FALSE])]
              /\ owed' = [owed EXCEPT ![d] =
                            IF ps.quiet /\ ~v.isDeleted
                            THEN @ \cup {<<"download", p>>} ELSE @]
        /\ UNCHANGED <<token, isSyncing, status, timerOn, debounce, saved,
                       local, remote, now, edits, rwrites, prev, tomb, exitAt,
                   debouncer, wsClient, conflictCopy>>

\* lines 225-238: vault.modify / vault.create returns, then updateMetadata
WriteReturn(d, s) ==
    LET ps == pass[d][s]
        p == ps.cur
        rf == ps.remoteFiles[p]
        m == updateMetadata(meta[d], p, downloadMeta(rf))
    IN  /\ ps.pc = "write"
        /\ \/ \* vault.modify(localFile, ...) if the listing held the file,
              \* vault.create(path, ...) if not: create refuses an existing file
              /\ p \in ps.localFiles \/ p \notin DOMAIN local[d]
              /\ local' = [local EXCEPT ![d] = Put(@, p, ps.content)]
              /\ meta' = [meta EXCEPT ![d] = m]
              /\ pass' = [pass EXCEPT ![d][s] =
                            ContinueDownloads(m, [ps EXCEPT !.content = <<>>])]
              /\ owed' = [owed EXCEPT ![d] = @ \ {<<"download", p>>}]
              /\ UNCHANGED <<isSyncing, status, fails, prev, exitAt>>
           \/ /\ IF p \notin ps.localFiles /\ p \in DOMAIN local[d]
                 THEN UNCHANGED fails
                 ELSE Fails
              /\ Abort(d, s)
              /\ UNCHANGED <<local, meta, owed>>
        /\ UNCHANGED <<token, timerOn, debounce, saved, remote, now, edits,
                       rwrites, tomb,
                   debouncer, wsClient, conflictCopy>>

\* the revision of the listing sent as the parent
parentRevisionListed(m, rf, p) == IF p \in DOMAIN rf THEN rf[p].revision ELSE 0

\* line 191: localMeta?.revision || 0, the parentRevision of the upload
parentRevisionOf(m, rf, p) == IF p \in DOMAIN m THEN m[p].revision ELSE 0

\* lines 178-193: vault.read and calculateHash return, then the upload decision
ReadReturn(d, s) ==
    LET ps == pass[d][s]
        p == ps.cur
    IN  /\ ps.pc = "read"
        /\ pass' = [pass EXCEPT ![d][s] =
              IF p \notin DOMAIN local[d]
              THEN ContinueUploads([ps EXCEPT !.ok = FALSE])   \* read throws, caught
              ELSE IF NeedsUpload(meta[d], ps.remoteFiles, p,
                                  calculateHash(local[d][p]))
                   THEN [ps EXCEPT !.pc = "upload", !.content = local[d][p],
                                   !.pushed = @ \cup {p},
                                   !.parentRevision =
                                       parentRevisionOf(meta[d],
                                                        ps.remoteFiles, p)]
                   ELSE ContinueUploads(ps)]
        /\ UNCHANGED <<token, isSyncing, status, timerOn, debounce, meta, saved,
                       local, remote, now, edits, rwrites, fails, prev, tomb,
                       exitAt, owed,
                   debouncer, wsClient, conflictCopy>>

\* the digest taken from the file as it is when the upload returns
uploadHashReread(content, files, path) ==
    IF path \in DOMAIN files THEN calculateHash(files[path])
    ELSE calculateHash(content)

\* lines 179, 191, 257: the digest recorded after an upload is the one computed
\* from the content that was read and sent
uploadHash(content, files, path) == calculateHash(content)

\* lines 246-268: uploadFile returns. The store accepts the write when
\* parentRevision is the path's current revision and answers 409 otherwise.
UploadReturn(d, s) ==
    LET ps == pass[d][s]
        p == ps.cur
        rev == currentRevision(p) + 1
        done == [ps EXCEPT !.content = <<>>, !.parentRevision = 0]
        failed == [done EXCEPT !.ok = FALSE]
    IN  /\ ps.pc = "upload"
        /\ \/ /\ ps.parentRevision = currentRevision(p)
              /\ remote' = Accept(p, ps.content, FALSE)
              /\ meta' = [meta EXCEPT ![d] =
                            updateMetadata(@, p,
                                [hash |-> uploadHash(ps.content, local[d], p),
                                 revision |-> rev, parentRevision |-> rev])]
              /\ pass' = Disturb([pass EXCEPT ![d][s] = ContinueUploads(done)],
                                 Devices \ {d})
              /\ prev' = Forget(Devices \ {d})
              /\ owed' = [Settle(Devices \ {d}) EXCEPT ![d] = @ \ {<<"upload", p>>}]
              /\ UNCHANGED <<now, fails>>
           \/ /\ ps.parentRevision # currentRevision(p)
              /\ now < MaxNow
              /\ now' = now + 1
              /\ pass' = [pass EXCEPT ![d][s] =
                            [failed EXCEPT !.pc = "rename",
                                           !.target = getConflictPath(p, now + 1)]]
              /\ owed' = [owed EXCEPT ![d] = @ \ {<<"upload", p>>}]
              /\ UNCHANGED <<remote, meta, fails, prev>>
           \/ /\ IF ps.parentRevision # currentRevision(p) /\ now >= MaxNow
                 THEN UNCHANGED fails
                 ELSE Fails
              /\ meta' = [meta EXCEPT ![d] = unconfirmed(@, p)]
              /\ pass' = [pass EXCEPT ![d][s] = ContinueUploads(failed)]
              /\ owed' = [owed EXCEPT ![d] =
                            IF ps.quiet THEN @ \cup {<<"upload", p>>} ELSE @]
              /\ UNCHANGED <<remote, now, prev>>
        /\ UNCHANGED <<token, isSyncing, status, timerOn, debounce, saved, local,
                       edits, rwrites, tomb, exitAt,
                   debouncer, wsClient, conflictCopy>>

\* lines 265-266: adapter.rename returns, then deleteMetadata
RenameReturn(d, s) ==
    LET ps == pass[d][s]
        p == ps.cur
        done == [ps EXCEPT !.target = NoPath]
    IN  /\ ps.pc = "rename"
        /\ IF p \in DOMAIN local[d]
           THEN /\ local' = [local EXCEPT ![d] =
                                Put(Remove(@, p), ps.target, local[d][p])]
                /\ meta' = [meta EXCEPT ![d] = deleteMetadata(@, p)]
           ELSE UNCHANGED <<local, meta>>     \* rename throws, caught per file
        /\ pass' = [pass EXCEPT ![d][s] = ContinueUploads(done)]
        /\ UNCHANGED <<token, isSyncing, status, timerOn, debounce, saved, remote,
                       now, edits, rwrites, fails, prev, tomb, exitAt, owed,
                   debouncer, wsClient, conflictCopy>>

\* line 200: saveSettings returns, then the finally block
SaveReturn(d, s) ==
    /\ pass[d][s].pc = "save"
    /\ \/ /\ saved' = [saved EXCEPT ![d] = meta[d]]
          /\ Finally(d, s)
          /\ UNCHANGED fails
       \/ /\ Fails
          /\ Abort(d, s)
          /\ UNCHANGED saved
    /\ UNCHANGED <<token, timerOn, debounce, meta, local, remote, now, edits,
                   rwrites, tomb, owed,
                   debouncer, wsClient, conflictCopy>>

\* ------------------------------------------------------------ environment

\* history: the user created a file at a path whose deletion a listing had
\* shown
Rewritten(t, p) ==
    [q \in DOMAIN t |-> IF q = p THEN [t[q] EXCEPT !.recreated = TRUE] ELSE t[q]]

\* the user creates or modifies a file: vault 'create' / 'modify' -> onChange
LocalWrite(d, p, c) ==
    /\ edits < MaxEdits
    /\ ~(p \in DOMAIN local[d] /\ local[d][p] = c)
    /\ edits' = edits + 1
    /\ local' = [local EXCEPT ![d] = Put(@, p, c)]
    /\ debounce' = [debounce EXCEPT ![d] = @ \/ token[d]]
    /\ debouncer' = [debouncer EXCEPT ![d] =
                        IF token[d] THEN Schedule(debounce[d], @) ELSE @]
    /\ pass' = Disturb(Raced(pass, d, p), {d})
    /\ prev' = Forget({d})
    /\ owed' = Settle({d})
    /\ tomb' = [tomb EXCEPT ![d] =
                    IF p \in DOMAIN local[d] THEN @ ELSE Rewritten(@, p)]
    /\ UNCHANGED <<token, isSyncing, status, timerOn, meta, saved, remote,
                   now, rwrites, fails, exitAt, wsClient, conflictCopy>>

\* the user deletes a file: vault 'delete' -> debouncedSync
LocalDelete(d, p) ==
    /\ edits < MaxEdits
    /\ p \in DOMAIN local[d]
    /\ edits' = edits + 1
    /\ local' = [local EXCEPT ![d] = Remove(@, p)]
    /\ debounce' = [debounce EXCEPT ![d] = TRUE]
    /\ debouncer' = [debouncer EXCEPT ![d] = Schedule(debounce[d], @)]
    /\ pass' = Disturb(pass, {d})
    /\ prev' = Forget({d})
    /\ owed' = Settle({d})
    /\ UNCHANGED <<token, isSyncing, status, timerOn, meta, saved, remote,
                   now, rwrites, fails, tomb, exitAt, wsClient, conflictCopy>>

\* the user renames a file: vault 'rename' -> debouncedSync
LocalRename(d, p, q) ==
    /\ p \in DOMAIN local[d]
    /\ q \notin DOMAIN local[d]
    /\ local' = [local EXCEPT ![d] = Put(Remove(@, p), q, local[d][p])]
    /\ debounce' = [debounce EXCEPT ![d] = TRUE]
    /\ debouncer' = [debouncer EXCEPT ![d] = Schedule(debounce[d], @)]
    /\ pass' = Disturb(pass, {d})
    /\ prev' = Forget({d})
    /\ owed' = Settle({d})
    /\ tomb' = [tomb EXCEPT ![d] = Rewritten(@, q)]
    /\ UNCHANGED <<token, isSyncing, status, timerOn, meta, saved, remote,
                   now, edits, rwrites, fails, exitAt, wsClient, conflictCopy>>

\* the clock advances by one tick; a timer that is due runs before it does
Tick ==
    /\ \A d \in Devices : debounce[d] => debouncer[d].timer > 0
    /\ debouncer' = [d \in Devices |->
            [debouncer[d] EXCEPT
                !.timer = IF debounce[d] THEN @ - 1 ELSE @,
                !.since = IF @ = -1 \/ @ > DebounceTicks THEN @ ELSE @ + 1]]
    /\ UNCHANGED <<token, isSyncing, status, timerOn, debounce, meta, saved,
                   local, pass, remote, now, edits, rwrites, fails, prev, tomb,
                   exitAt, owed, wsClient, conflictCopy>>

\* the debounced callback when its timer has run out
DebounceDue(d) ==
    /\ debouncer[d].timer = 0
    /\ DebounceFire(d)

\* another client's upload is accepted by the store
RemoteWrite(p, c) ==
    /\ rwrites < MaxRemoteWrites
    /\ p \in DOMAIN remote =>
            remote[p][Len(remote[p])] # [content |-> c, isDeleted |-> FALSE]
    /\ rwrites' = rwrites + 1
    /\ remote' = Accept(p, c, FALSE)
    /\ pass' = Disturb(pass, Devices)
    /\ prev' = Forget(Devices)
    /\ owed' = Settle(Devices)
    /\ UNCHANGED <<token, isSyncing, status, timerOn, debounce, meta, saved, local,
                   now, edits, fails, tomb, exitAt,
                   debouncer, wsClient, conflictCopy>>

\* another client's delete is accepted by the store: a tombstone revision
RemoteDelete(p) ==
    /\ rwrites < MaxRemoteWrites
    /\ p \in DOMAIN remote
    /\ ~remote[p][Len(remote[p])].isDeleted
    /\ rwrites' = rwrites + 1
    /\ remote' = Accept(p, <<>>, TRUE)
    /\ pass' = Disturb(pass, Devices)
    /\ prev' = Forget(Devices)
    /\ owed' = Settle(Devices)
    /\ UNCHANGED <<token, isSyncing, status, timerOn, debounce, meta, saved, local,
                   now, edits, fails, tomb, exitAt,
                   debouncer, wsClient, conflictCopy>>

\* ---------------------------------------------------------- specifications

\* what an earlier session left behind: nothing; one file in sync; one file
\* synced and then deleted from the vault (its metadata entry stays)
Fresh == [local |-> Empty, remote |-> Empty, meta |-> Empty]
Synced ==
    LET p == OrigPath(BaseSeq[1])
        c == <<"x">>
    IN  [local |-> Put(Empty, p, c),
         remote |-> Put(Empty, p, <<[content |-> c, isDeleted |-> FALSE]>>),
         meta |-> Put(Empty, p, [hash |-> calculateHash(c), revision |-> 1,
                                 parentRevision |-> 1])]

\* after onload of the devices with a token (loadSettings, setAllMetadata,
\* startAutoSync): no pass in flight, the metadata as persisted. Device A is
\* the one the earlier session ran on.
InitWith(tokens, start) ==
    /\ token = [d \in Devices |-> d \in tokens]
    /\ isSyncing = [d \in Devices |-> FALSE]
    /\ status = [d \in Devices |-> "Idle"]
    /\ timerOn = [d \in Devices |-> d \in tokens]
    /\ debounce = [d \in Devices |-> FALSE]
    /\ meta = [d \in Devices |-> IF d = "A" THEN start.meta ELSE Empty]
    /\ saved = meta
    /\ local = [d \in Devices |-> IF d = "A" THEN start.local ELSE Empty]
    /\ pass = [d \in Devices |-> [s \in Slots |-> IdlePass]]
    /\ remote = start.remote
    /\ now = 0
    /\ edits = 0
    /\ rwrites = 0
    /\ fails = 0
    /\ prev = [d \in Devices |-> "none"]
    /\ tomb = [d \in Devices |-> Empty]
    /\ exitAt = [d \in Devices |-> "none"]
    /\ owed = [d \in Devices |-> {}]
    /\ debouncer = [d \in Devices |->
                        [timer |-> 0, since |-> -1, calls |-> 0, burst |-> 0,
                         refused |-> FALSE]]
    /\ wsClient = NewClient
    /\ conflictCopy = [path |-> <<>>, result |-> <<>>]

Removed == [Synced EXCEPT !.local = Empty]

Init == \E start \in {Fresh, Synced, Removed} : InitWith({"A"}, start)

\* a note that exists on device A only, never synced
\* (the plugin was installed over an existing vault); device B's vault is empty
Unsynced ==
    [local |-> Put(Empty, OrigPath(BaseSeq[1]), <<"y">>),
     remote |-> Empty, meta |-> Empty]

PassStep(d, s) ==
    \/ ListFilesReturn(d, s)
    \/ DownloadReturn(d, s)
    \/ WriteReturn(d, s)
    \/ ReadReturn(d, s)
    \/ UploadReturn(d, s)
    \/ RenameReturn(d, s)
    \/ SaveReturn(d, s)

Trigger(d) == ManualSync(d) \/ TimerFire(d) \/ DebounceFire(d)

User(d) ==
    \/ \E p \in UserPaths, c \in Contents : LocalWrite(d, p, c)
    \/ \E p \in UserPaths : LocalDelete(d, p)

Others ==
    \/ \E p \in UserPaths, c \in OtherContents : RemoteWrite(p, c)
    \/ \E p \in UserPaths : RemoteDelete(p)

\* one device, its user, and the other clients of the store
Next ==
    \/ Trigger("A")
    \/ \E s \in Slots : PassStep("A", s)
    \/ User("A")
    \/ Others

Spec == Init /\ [][Next]_vars

\* every remote call and file operation returns or throws, and the timer
\* keeps firing
FairSpec ==
    /\ Spec
    /\ \A s \in Slots : WF_vars(PassStep("A", s))
    /\ WF_vars(TimerFire("A"))

\* two devices on one store
InitTwo == \E start \in {Fresh, Synced} : InitWith(Devices, start)

NextTwo ==
    \E d \in Devices :
        \/ Trigger(d)
        \/ \E s \in Slots : PassStep(d, s)
        \/ User(d)

SpecTwo == InitTwo /\ [][NextTwo]_vars

\* lines 63-71: the 'Force Reset Sync Lock' command
ForceReset(d) ==
    /\ isSyncing' = [isSyncing EXCEPT ![d] = FALSE]
    /\ status' = [status EXCEPT ![d] = "Idle"]
    /\ UNCHANGED <<token, timerOn, debounce, meta, saved, local, pass, remote,
                   now, edits, rwrites, fails, prev, tomb, exitAt, owed,
                   debouncer, wsClient, conflictCopy>>

\* one device holding a never-synced note, whose user may run the reset
\* command at any moment
InitReset == InitWith({"A"}, Unsynced)

NextReset ==
    \/ ManualSync("A")
    \/ TimerFire("A")
    \/ \E s \in Slots : PassStep("A", s)
    \/ ForceReset("A")

SpecReset == InitReset /\ [][NextReset]_vars

\* the settings tab: a token typed into the 'API Token' field (utils.ts
\* 63-67): settings.token is set and saveSettings persists the settings, the
\* metadata with them
EnterToken(d) ==
    /\ ~token[d]
    /\ token' = [token EXCEPT ![d] = TRUE]
    /\ saved' = [saved EXCEPT ![d] = meta[d]]
    /\ UNCHANGED <<isSyncing, status, timerOn, debounce, meta, local, pass,
                   remote, now, edits, rwrites, fails, prev, tomb, exitAt, owed,
                   debouncer, wsClient, conflictCopy>>

\* the 'Clear Token' button (utils.ts 114-120), or the field emptied
ClearToken(d) ==
    /\ token[d]
    /\ token' = [token EXCEPT ![d] = FALSE]
    /\ saved' = [saved EXCEPT ![d] = meta[d]]
    /\ UNCHANGED <<isSyncing, status, timerOn, debounce, meta, local, pass,
                   remote, now, edits, rwrites, fails, prev, tomb, exitAt, owed,
                   debouncer, wsClient, conflictCopy>>

\* the plugin loaded with or without a token, and a user who may change it
InitSettings ==
    \E tokens \in {{}, {"A"}}, start \in {Fresh, Synced, Removed} :
        InitWith(tokens, start)

NextSettings ==
    \/ Trigger("A")
    \/ \E s \in Slots : PassStep("A", s)
    \/ User("A")
    \/ Others
    \/ EnterToken("A")
    \/ ClearToken("A")

SpecSettings == InitSettings /\ [][NextSettings]_vars

\* the debouncer under the clock: one device whose user renames notes, and
\* the other clients of the store
NextDebounce ==
    \/ \E s \in Slots : PassStep("A", s)
    \/ \E p, q \in UserPaths : LocalRename("A", p, q)
    \/ Others
    \/ Tick
    \/ DebounceDue("A")

SpecDebounce == Init /\ [][NextDebounce]_vars

\* ------------------------------------------- the WebSocketClient's steps

plugin == <<token, isSyncing, status, timerOn, debounce, meta, saved, local,
            pass, remote, now, edits, rwrites, fails, prev, tomb, exitAt, owed,
            debouncer>>

\* the owner of the client calls connect()
WsConnect ==
    /\ wsClient' \in connect([wsClient EXCEPT !.disconnected = FALSE])
    /\ UNCHANGED <<plugin, conflictCopy>>

\* the owner of the client calls disconnect()
WsDisconnect ==
    /\ wsClient' = Answered([disconnect(wsClient) EXCEPT !.disconnected = TRUE])
    /\ UNCHANGED <<plugin, conflictCopy>>

\* the connection of socket i is established: its open event
SocketOpen(i) ==
    /\ wsClient.sock[i] = "CONNECTING"
    /\ wsClient' = onopen([wsClient EXCEPT !.sock[i] = "OPEN"])
    /\ UNCHANGED <<plugin, conflictCopy>>

\* socket i fails to open, loses its connection or completes its closing
\* handshake: its error event, if any, and its close event
SocketClose(i) ==
    /\ wsClient.sock[i] \in {"CONNECTING", "OPEN", "CLOSING"}
    /\ wsClient' = Closed(onclose([wsClient EXCEPT !.sock[i] = "CLOSED"]))
    /\ UNCHANGED <<plugin, conflictCopy>>

\* lines 100-103: a reconnect timeout runs
ReconnectFire ==
    \E k \in 1..Len(wsClient.timers) :
        /\ wsClient.timers[k] = 0
        /\ LET c == wsClient
               n == Len(c.timers)
               fired == [c EXCEPT !.timers = SubSeq(c.timers, 1, k - 1)
                                             \o SubSeq(c.timers, k + 1, n),
                                  !.handleLive = @ /\ k # n]
           IN  wsClient' \in connect(Answered(fired))
        /\ UNCHANGED <<plugin, conflictCopy>>

\* the clock advances by one tick; a timeout that is due runs before it does
WsTick ==
    /\ \A k \in 1..Len(wsClient.timers) : wsClient.timers[k] > 0
    /\ wsClient' =
         [wsClient EXCEPT
            !.timers = [k \in 1..Len(wsClient.timers) |-> wsClient.timers[k] - 1],
            !.sinceFirst = IF @ = -1 \/ @ > ReconnectTicks THEN @ ELSE @ + 1,
            !.sinceLast = IF @ = -1 \/ @ > ReconnectTicks THEN @ ELSE @ + 1]
    /\ UNCHANGED <<plugin, conflictCopy>>

\* the client, its owner, its sockets and the clock
NextWs ==
    \/ WsConnect
    \/ WsDisconnect
    \/ \E i \in Sockets : SocketOpen(i)
    \/ \E i \in Sockets : SocketClose(i)
    \/ ReconnectFire
    \/ WsTick

\* the plugin at rest and a client just constructed
InitWs == InitWith({"A"}, Fresh)

SpecWs == InitWs /\ [][NextWs]_vars

\* ------------------------------------------------ getConflictPath's calls

\* line 263: a file's upload is answered with a conflict
ConflictOn(path) ==
    /\ conflictCopy.path = <<>>
    /\ conflictCopy' = [path |-> path, result |-> <<>>]
    /\ UNCHANGED <<plugin, wsClient>>

\* line 264: getConflictPath(file.path) at some time of the clock
ConflictPathTaken(stamp) ==
    /\ conflictCopy.path # <<>>
    /\ conflictCopy.result = <<>>
    /\ conflictCopy' = [conflictCopy EXCEPT
                           !.result = getConflictPathOf(conflictCopy.path, stamp)]
    /\ UNCHANGED <<plugin, wsClient>>

NextPath ==
    \/ \E path \in FilePaths : ConflictOn(path)
    \/ \E stamp \in StampTexts : ConflictPathTaken(stamp)

SpecPath == InitWs /\ [][NextPath]_vars

\* the MetadataManager on its own: any caller, any entry
MetaInputs ==
    [hash : {EmptyHash} \cup {calculateHash(c) : c \in Contents},
     revision : 0..MaxRevision, parentRevision : 0..MaxRevision]

SetMetadata(d, path, m) ==
    /\ meta' = [meta EXCEPT ![d] = updateMetadata(@, path, m)]
    /\ UNCHANGED <<token, isSyncing, status, timerOn, debounce, saved, local,
                   pass, remote, now, edits, rwrites, fails, prev, tomb, exitAt,
                   owed,
                   debouncer, wsClient, conflictCopy>>

RemoveMetadata(d, path) ==
    /\ meta' = [meta EXCEPT ![d] = deleteMetadata(@, path)]
    /\ UNCHANGED <<token, isSyncing, status, timerOn, debounce, saved, local,
                   pass, remote, now, edits, rwrites, fails, prev, tomb, exitAt,
                   owed,
                   debouncer, wsClient, conflictCopy>>

NextMetadata ==
    \E path \in UserPaths :
        \/ \E m \in MetaInputs : SetMetadata("A", path, m)
        \/ RemoveMetadata("A", path)

SpecMetadata == Init /\ [][NextMetadata]_vars

\* ---------------------------------------------------------------- claims

\* C1: whatever the order in which the manual command, the timer and the
\* debounced handler request a pass, at most one performSync invocation of a
\* device is between setting the guard and its cleanup block.
SingleFlight == \A d \in Devices : Cardinality(InFlight(d)) <= 1

\* a pass is in flight while the timer runs and a debounced request is pending
SingleFlightWitness ==
    /\ InFlight("A") # {}
    /\ isSyncing["A"]
    /\ timerOn["A"]
    /\ debounce["A"]

\* where the invocations of a device are suspended: every resumption of a
\* pass changes it
Position(d) == [s \in Slots |-> <<pass[d][s].pc, pass[d][s].cur,
                                  pass[d][s].dl, pass[d][s].ul>>]

\* C10: a performSync request made while a pass is active starts nothing and
\* changes nothing: in a step taken while a pass of the device is in flight no
\* invocation begins, and unless the step resumes a pass it leaves the
\* metadata, the persisted metadata and the guard as they are, the files
\* unless the user edits, the store unless another client writes; nor is the
\* request kept for later (the debouncer is not re-armed).
RefusedWhileActive ==
    [][\A d \in Devices :
          InFlight(d) # {} =>
            /\ InFlight(d)' \subseteq InFlight(d)
            /\ Position(d)' = Position(d) =>
                 /\ meta'[d] = meta[d]
                 /\ saved'[d] = saved[d]
                 /\ isSyncing'[d] = isSyncing[d]
                 /\ edits' = edits => /\ local'[d] = local[d]
                                      /\ debounce'[d] => debounce[d]
                 /\ (rwrites' = rwrites /\ \A e \in Devices : Position(e)' = Position(e))
                        => remote' = remote]_vars

\* the user created a file after the pass took its listings, and the
\* debounced request this armed has fired and been refused: the pass is still
\* in flight
RefusedWitness ==
    \E p \in UserPaths :
        /\ pass["A"][1].pc \notin {"idle", "list"}
        /\ p \in DOMAIN local["A"]
        /\ p \notin pass["A"][1].localFiles
        /\ p \notin DOMAIN pass["A"][1].remoteFiles
        /\ p \notin DOMAIN remote
        /\ edits = 1
        /\ ~debounce["A"]

\* a performSync request would be accepted
Accepts(d) == token[d] /\ ~isSyncing[d] /\ InFlight(d) # Slots

\* C3: a pass that set the guard clears it on every exit path (completion, a
\* failed listing, an exception while downloading, uploading or saving), each
\* awaited call returning or throwing; a request is then accepted again.
GuardReleased == \A d \in Devices : isSyncing[d] ~> Accepts(d)

\* a pass left through its catch block and the guard is clear
GuardReleasedWitness ==
    /\ status["A"] = "Error"
    /\ fails > 0
    /\ Accepts("A")

\* the Conflict Merger on two texts with no span in common: one marker block
\* holding both
Merged(l, r) ==
    <<"<<<<<<< Local">> \o l \o <<"=======">> \o r \o <<">>>>>>> Remote">>

\* the texts the store has held for a path
RemoteTexts(p) == {remote[p][i].content : i \in 1..currentRevision(p)}

\* both sides changed since the path was last synced: the file's digest is
\* not the recorded one and the store holds a live revision past the recorded
\* one
BothChanged(d, p) ==
    /\ p \in DOMAIN local[d]
    /\ p \in DOMAIN meta[d]
    /\ calculateHash(local[d][p]) # meta[d][p].hash
    /\ currentRevision(p) > meta[d][p].revision
    /\ ~remote[p][currentRevision(p)].isDeleted

\* C2: no silent loss. When a path changed on both sides, a step of the plugin
\* that replaces or removes the file's text leaves either a merge of that text
\* with a remote text inside a marker block, or a conflict copy holding that
\* text; it is never just overwritten.
NoSilentLoss ==
    [][\A d \in Devices : \A p \in DOMAIN local[d] :
          (/\ BothChanged(d, p)
           /\ edits' = edits
           /\ p \notin DOMAIN local'[d] \/ local'[d][p] # local[d][p])
          => \/ /\ p \in DOMAIN local'[d]
                /\ \E r \in RemoteTexts(p) :
                       local'[d][p] = Merged(local[d][p], r)
             \/ \E q \in DOMAIN local'[d] :
                    /\ q.base = p.base
                    /\ q.ts > 0
                    /\ local'[d][q] = local[d][p]]_vars

\* an invocation of d returns in this step
PassEnds(d, s) == pass[d][s].pc # "idle" /\ pass'[d][s].pc = "idle"

\* C4 as stated: every metadata entry present when a pass begins (that is,
\* when the pass before it ended) is still present when the pass ends, with a
\* revision at least as large.
MonotonicRevision ==
    [][\A d \in Devices, s \in Slots :
          PassEnds(d, s) =>
              \A p \in DOMAIN pass[d][s].meta0 :
                  /\ p \in DOMAIN meta'[d]
                  /\ meta'[d][p].revision >= pass[d][s].meta0[p].revision]_vars

\* C4: monotonic revision. An entry present when a pass begins and still
\* present when it ends has a revision at least as large; and an entry is
\* removed only by the conflict branch of the upload of its path.
MonotonicUnlessConflict ==
    [][\A d \in Devices :
          /\ \A s \in Slots :
                PassEnds(d, s) =>
                    \A p \in DOMAIN pass[d][s].meta0 \cap DOMAIN meta'[d] :
                        meta'[d][p].revision >= pass[d][s].meta0[p].revision
          /\ \A p \in DOMAIN meta[d] \ DOMAIN meta'[d] :
                \E s \in Slots : /\ pass[d][s].pc = "rename"
                                 /\ pass[d][s].cur = p]_vars

\* a pass has ended that raised the recorded revision of a file synced before
MonotonicWitness ==
    /\ InFlight("A") = {}
    /\ prev["A"] # "none"
    /\ \E p \in DOMAIN meta["A"] : meta["A"][p].revision = 2

\* an invocation of d is at a download, a file write, an upload or a rename
Acting(d) ==
    \E s \in Slots : pass[d][s].pc \in {"download", "write", "upload", "rename"}

LiveRemote ==
    LET last(p) == remote[p][Len(remote[p])]
    IN  [p \in {q \in DOMAIN remote : ~last(q).isDeleted} |-> last(p).content]

\* C6: eventual consistency. When every device has run a pass to its end with
\* every call succeeding and nothing has changed since those passes began
\* (further passes change nothing), each device's tree holds exactly the
\* store's live records with the same text.
Converged ==
    (\A d \in Devices : prev[d] = "clean")
        => \A d \in Devices : local[d] = LiveRemote

MergeOnDownload ==
    [][\A d \in Devices, s \in Slots :
          LET ps == pass[d][s]
              p == ps.cur
          IN  (/\ ps.pc = "write"
               /\ pass'[d][s].pc \notin {"write", "idle"}
               /\ ~ps.remoteFiles[p].isDeleted
               /\ p \in DOMAIN local[d]
               /\ local[d][p] # ps.content
               /\ p \in DOMAIN meta[d] =>
                      calculateHash(local[d][p]) # meta[d][p].hash)
              => /\ local'[d][p] = Merged(local[d][p], ps.content)
                 /\ meta'[d][p].revision = ps.remoteFiles[p].revision
                 /\ meta'[d][p].hash # calculateHash(local'[d][p])]_vars

\* C9: tombstone convergence. When a pass reads a file the user created at a
\* path after a listing had shown the path deleted at revision r, the store
\* still being at r, the pass goes on to upload it with parentRevision = r.
RecreationUploaded ==
    [][\A d \in Devices, s \in Slots :
          LET ps == pass[d][s]
              p == ps.cur
          IN  (/\ ps.pc = "read"
               /\ pass'[d][s] # ps
               /\ p \in DOMAIN local[d]
               /\ p \in DOMAIN tomb[d]
               /\ tomb[d][p].recreated
               /\ p \in DOMAIN ps.remoteFiles
               /\ ps.remoteFiles[p].isDeleted
               /\ currentRevision(p) = tomb[d][p].revision)
              => /\ pass'[d][s].pc = "upload"
                 /\ pass'[d][s].parentRevision = tomb[d][p].revision]_vars

\* C11: a failed listing ends the pass at once: nothing was downloaded or
\* uploaded, the step changes no file, no record of the store and no metadata
\* entry, in memory or persisted, and it clears the guard.
ListingFailureAborts ==
    [][\A d \in Devices, s \in Slots :
          (pass[d][s].pc = "list" /\ fails' # fails)
          => /\ pass'[d][s].pc = "idle"
             /\ pass[d][s].tried = {}
             /\ pass[d][s].pushed = {}
             /\ meta[d] = pass[d][s].meta0
             /\ meta' = meta
             /\ saved' = saved
             /\ local' = local
             /\ remote' = remote
             /\ ~isSyncing'[d]
             /\ status'[d] = "Error"]_vars

\* a pass has returned from a failed listing while a file waits to be pulled
\* and another to be pushed
ListingFailureWitness ==
    /\ exitAt["A"] = "list"
    /\ InFlight("A") = {}
    /\ ~isSyncing["A"]
    /\ \E p \in DOMAIN remote : p \notin DOMAIN meta["A"]
    /\ \E p \in DOMAIN local["A"] : p \notin DOMAIN meta["A"]

\* C12: a failure while one path is processed does not stop the pass: a step
\* taken from a download, a file write, a read, an upload or a rename never
\* returns from performSync, the loops go on to the next path.
FailureKeepsPass ==
    [][\A d \in Devices, s \in Slots :
          pass[d][s].pc \in {"download", "write", "read", "upload", "rename"}
              => pass'[d][s].pc # "idle"]_vars

\* C13: the metadata changes only after a confirmed action: a download or an
\* upload that returns a failure leaves the metadata as it is, and when a pass
\* has gone through both loops every path whose download or upload had failed,
\* nothing having changed since, was selected for that action again.
RetriedAfterFailure ==
    [][\A d \in Devices, s \in Slots :
          /\ (/\ pass[d][s].pc \in {"download", "upload"}
              /\ fails' # fails)
                => meta'[d] = meta[d]
          /\ (/\ pass[d][s].pc # "save"
              /\ pass'[d][s].pc = "save")
                => \A o \in owed'[d] :
                       /\ o[1] = "download" => o[2] \in pass'[d][s].tried
                       /\ o[1] = "upload" => o[2] \in pass'[d][s].pushed]_vars

\* C14: whenever a pass that began with the metadata persisted returns, having
\* completed or through the catch block (saveSettings itself failing set
\* aside), the persisted metadata equals the metadata in memory.
PersistedAtPassEnd ==
    [][\A d \in Devices, s \in Slots :
          (/\ PassEnds(d, s)
           /\ saved[d] = pass[d][s].meta0
           /\ ~(pass[d][s].pc = "save" /\ fails' # fails))
              => saved'[d] = meta'[d]]_vars

\* the local tombstone marker recording a deletion at revision r
Tombstone(r) == [hash |-> EmptyHash, revision |-> r, parentRevision |-> r]

\* the listing of the pass shows p deleted at a revision that must be pulled
DeletedToPull(ps, p) ==
    /\ p \in DOMAIN ps.remoteFiles
    /\ ps.remoteFiles[p].isDeleted
    /\ p \in DOMAIN ps.meta0 => ps.remoteFiles[p].revision > ps.meta0[p].revision

\* C15: remote tombstone. When a pass under which nothing else changed runs to
\* its end, every path its listing showed deleted at a revision to be pulled
\* has no local file and a tombstone entry at that revision.
TombstoneApplied ==
    [][\A d \in Devices, s \in Slots :
          (/\ pass[d][s].pc = "save"
           /\ PassEnds(d, s)
           /\ fails' = fails
           /\ pass[d][s].quiet)
              => \A p \in DOMAIN pass[d][s].remoteFiles :
                     DeletedToPull(pass[d][s], p)
                         => /\ p \notin DOMAIN local'[d]
                            /\ p \in DOMAIN meta'[d]
                            /\ meta'[d][p] =
                                   Tombstone(pass[d][s].remoteFiles[p].revision)]_vars

\* the file of a synced path is gone from the vault and the store is not ahead
DeletedLocally(d, ps, p) ==
    /\ p \in DOMAIN ps.meta0
    /\ ps.meta0[p].hash # EmptyHash
    /\ p \notin DOMAIN local[d]
    /\ p \notin ps.tried
    /\ p \in DOMAIN ps.remoteFiles =>
           ps.remoteFiles[p].revision <= ps.meta0[p].revision

\* C16: local deletion. When a pass under which nothing changed runs to its
\* end, every synced path whose file is gone from the vault, that was not
\* pulled and on which the store is not ahead, has been deleted in the store
\* on top of the recorded revision, and its entry is a tombstone at the new
\* revision.
LocalDeletionPushed ==
    [][\A d \in Devices, s \in Slots :
          (/\ pass[d][s].pc = "save"
           /\ PassEnds(d, s)
           /\ fails' = fails
           /\ pass[d][s].quiet
           /\ pass[d][s].ok)
              => \A p \in DOMAIN pass[d][s].meta0 :
                     DeletedLocally(d, pass[d][s], p)
                         => /\ currentRevision(p) = pass[d][s].meta0[p].revision + 1
                            /\ remote[p][currentRevision(p)].isDeleted
                            /\ meta'[d][p] = Tombstone(currentRevision(p))]_vars

\* the uploads loop finishes with the file it was reading
ReadStep(d, s) ==
    /\ pass[d][s].pc = "read"
    /\ pass'[d][s].pc # "read" \/ pass'[d][s].cur # pass[d][s].cur

\* the file's digest is not the recorded one, or nothing is recorded
ChangedLocally(d, p) ==
    p \notin DOMAIN meta[d] \/ meta[d][p].hash # calculateHash(local[d][p])

\* the listing holds a record of the path that the metadata is behind of
RemoteAhead(d, ps, p) ==
    /\ p \in DOMAIN ps.remoteFiles
    /\ p \in DOMAIN meta[d] => ps.remoteFiles[p].revision > meta[d][p].revision

\* C17: upload. A file read by the uploads loop whose digest is not the
\* recorded one (or that has no entry), the remote record not being ahead, is
\* uploaded as read with parentRevision = the recorded revision (0 without an
\* entry); a file whose digest is the recorded one is not uploaded; and an
\* accepted upload sets the entry to the uploaded digest with revision =
\* parentRevision = the revision the store assigned.
UploadsChanged ==
    [][\A d \in Devices, s \in Slots :
          LET ps == pass[d][s]
              p == ps.cur
          IN  /\ (ReadStep(d, s) /\ p \in DOMAIN local[d])
                    => /\ (ChangedLocally(d, p) /\ ~RemoteAhead(d, ps, p))
                            => /\ pass'[d][s].pc = "upload"
                               /\ pass'[d][s].content = local[d][p]
                               /\ pass'[d][s].parentRevision =
                                      IF p \in DOMAIN meta[d]
                                      THEN meta[d][p].revision ELSE 0
                       /\ ~ChangedLocally(d, p) => pass'[d][s].pc # "upload"
              /\ (/\ ps.pc = "upload"
                  /\ pass'[d][s].pc # "upload"
                  /\ remote' # remote)
                    => /\ currentRevision(p) = ps.parentRevision
                       /\ Len(remote'[p]) = ps.parentRevision + 1
                       /\ remote'[p][Len(remote'[p])] =
                              [content |-> ps.content, isDeleted |-> FALSE]
                       /\ meta'[d][p] =
                              [hash |-> calculateHash(ps.content),
                               revision |-> Len(remote'[p]),
                               parentRevision |-> Len(remote'[p])]]_vars

\* an edit of a synced file has been uploaded: the store is at revision 2 with
\* the file's text and the entry records it
UploadsChangedWitness ==
    \E p \in UserPaths, s \in Slots :
        /\ pass["A"][s].pc \in {"read", "save"}
        /\ p \in pass["A"][s].pushed
        /\ p \in DOMAIN pass["A"][s].meta0
        /\ p \in DOMAIN meta["A"]
        /\ meta["A"][p].revision = 2
        /\ currentRevision(p) = 2
        /\ p \in DOMAIN local["A"]
        /\ meta["A"][p].hash = calculateHash(local["A"][p])

\* C18: upload skip. A locally changed file read by the uploads loop is not
\* uploaded in this pass when the pass's listing holds a record of its path
\* with a revision greater than the recorded one, or holds a record while the
\* path has no entry.
SkipsWhenRemoteAhead ==
    [][\A d \in Devices, s \in Slots :
          LET ps == pass[d][s]
              p == ps.cur
          IN  (/\ ReadStep(d, s)
               /\ p \in DOMAIN local[d]
               /\ ChangedLocally(d, p)
               /\ RemoteAhead(d, ps, p))
                  => pass'[d][s].pc # "upload"]_vars

\* processDownload finishes writing the record it pulled
WriteStep(d, s) ==
    /\ pass[d][s].pc = "write"
    /\ pass'[d][s].pc \notin {"write", "idle"}

\* C19: plain download. When processDownload has pulled a record and written
\* it where there was no file, or over a file whose digest is the recorded
\* one, the file holds the store's text of the listed revision and the entry is
\* the listed hash with revision = parentRevision = the listed revision.
PlainDownload ==
    [][\A d \in Devices, s \in Slots :
          LET ps == pass[d][s]
              p == ps.cur
              rf == ps.remoteFiles[p]
          IN  (/\ WriteStep(d, s)
               /\ p \in DOMAIN local[d] =>
                      /\ p \in DOMAIN meta[d]
                      /\ meta[d][p].hash = calculateHash(local[d][p]))
                  => /\ p \in DOMAIN local'[d]
                     /\ local'[d][p] = remote[p][rf.revision].content
                     /\ meta'[d][p] = [hash |-> rf.hash,
                                       revision |-> rf.revision,
                                       parentRevision |-> rf.revision]
                     /\ ~rf.isDeleted =>
                            rf.hash = calculateHash(local'[d][p])]_vars

\* a pass has pulled revision 2 of a synced, locally unchanged file: the file
\* holds the new text and the entry is at revision 2
PlainDownloadWitness ==
    \E p \in UserPaths, s \in Slots :
        /\ pass["A"][s].pc \in {"read", "save"}
        /\ p \in pass["A"][s].tried
        /\ p \in DOMAIN pass["A"][s].meta0
        /\ pass["A"][s].meta0[p].revision = 1
        /\ p \in DOMAIN meta["A"]
        /\ meta["A"][p].revision = 2
        /\ p \in DOMAIN local["A"]
        /\ local["A"][p] = remote[p][2].content
        /\ ~remote[p][2].isDeleted
        /\ edits = 0

\* the listed revision of p is not past the one recorded when the pass began
UpToDate(ps, p) ==
    /\ p \in DOMAIN ps.remoteFiles
    /\ p \in DOMAIN ps.meta0
    /\ ps.remoteFiles[p].revision <= ps.meta0[p].revision

\* C20: for a listed record whose revision is not greater than the recorded
\* one the downloads loop requests no download, and its steps leave the file
\* and the entry of that path as they are.
NoDownloadWhenUpToDate ==
    [][\A d \in Devices, s \in Slots :
          (/\ pass[d][s].pc \in {"list", "download", "write"}
           /\ pass'[d][s].pc # "idle"
           /\ edits' = edits)
              => \A p \in DOMAIN pass'[d][s].remoteFiles :
                     UpToDate(pass'[d][s], p)
                         => /\ p \notin pass'[d][s].tried
                            /\ pass'[d][s].pc \in {"download", "write"} =>
                                   pass'[d][s].cur # p
                            /\ p \in DOMAIN meta'[d]
                            /\ meta'[d][p] = pass'[d][s].meta0[p]
                            /\ p \in DOMAIN local[d] <=> p \in DOMAIN local'[d]
                            /\ p \in DOMAIN local[d] =>
                                   local'[d][p] = local[d][p]]_vars

\* the downloads loop has pulled one record and passed over another whose
\* listed revision is the recorded one
NoDownloadWitness ==
    \E p, q \in UserPaths, s \in Slots :
        /\ pass["A"][s].pc \in {"read", "save"}
        /\ UpToDate(pass["A"][s], p)
        /\ p \notin pass["A"][s].tried
        /\ q \in pass["A"][s].tried
        /\ q \in DOMAIN meta["A"]

InitScenario == InitWith(Devices, Unsynced)

SpecScenario == InitScenario /\ [][NextTwo]_vars

\* C21: two devices. With no edit, no other writer and no failure, a pass of A
\* that finds the note with no entry and no remote record uploads it with
\* parentRevision 0 and records the revision the store assigned; a pass of B
\* that lists the record, B having neither file nor entry, creates the file
\* with A's text and records A's revision; and a pass of either device that
\* begins with the entry requests neither a download nor an upload of the path.
TwoDeviceScenario ==
    [][\A d \in Devices, s \in Slots :
          LET ps == pass[d][s]
              p == OrigPath(BaseSeq[1])
          IN  (edits' = 0 /\ rwrites' = 0 /\ fails' = 0)
              => /\ (d = "A" /\ ReadStep(d, s) /\ ps.cur = p /\ p \notin DOMAIN meta[d])
                       => /\ pass'[d][s].pc = "upload"
                          /\ pass'[d][s].parentRevision = 0
                 /\ (d = "A" /\ ps.pc = "upload" /\ pass'[d][s].pc # "upload")
                       => /\ remote'[p] = <<[content |-> local[d][p],
                                             isDeleted |-> FALSE]>>
                          /\ meta'[d][p].revision = Len(remote'[p])
                 /\ (d = "B" /\ ps.pc \in {"list", "download", "write"}
                             /\ pass'[d][s].pc \in {"read", "save"}
                             /\ p \in DOMAIN pass'[d][s].remoteFiles
                             /\ p \notin DOMAIN ps.meta0)
                       => /\ p \in pass'[d][s].tried
                          /\ p \in DOMAIN local'[d]
                          /\ local'[d][p] = local'["A"][p]
                          /\ meta'[d][p].revision = meta'["A"][p].revision
                 /\ (pass'[d][s].pc # "idle" /\ p \in DOMAIN pass'[d][s].meta0)
                       => /\ p \notin pass'[d][s].tried
                          /\ p \notin pass'[d][s].pushed]_vars

\* A uploaded the note, B pulled it, and a further pass of each device has gone
\* through both loops without requesting anything
TwoDeviceWitness ==
    LET p == OrigPath(BaseSeq[1])
    IN  /\ edits = 0 /\ rwrites = 0 /\ fails = 0
        /\ \A d \in Devices :
              /\ p \in DOMAIN meta[d]
              /\ meta[d][p].revision = 1
              /\ local[d][p] = <<"y">>
              /\ \E s \in Slots :
                    /\ pass[d][s].pc = "save"
                    /\ p \in DOMAIN pass[d][s].meta0
                    /\ pass[d][s].tried = {}
                    /\ pass[d][s].pushed = {}
        /\ remote[p] = <<[content |-> <<"y">>, isDeleted |-> FALSE]>>

\* C26: every metadata entry, of every state the passes reach from an empty
\* metadata store, has parentRevision = revision.
ParentIsRevision ==
    \A d \in Devices : \A p \in DOMAIN meta[d] :
        meta[d][p].parentRevision = meta[d][p].revision

\* a pass that began with no entry has recorded one path by a download and
\* another by an upload
ParentIsRevisionWitness ==
    \E s \in Slots, p, q \in UserPaths :
        /\ pass["A"][s].pc = "save"
        /\ pass["A"][s].meta0 = Empty
        /\ p \in pass["A"][s].tried
        /\ q \in pass["A"][s].pushed
        /\ p # q
        /\ {p, q} \subseteq DOMAIN meta["A"]

\* the pass is in its uploads loop or past it
Uploading(ps) == ps.pc \in {"read", "upload", "rename", "save"}

\* C28: phase ordering. While a pass is listing, downloading or writing a
\* pulled record it has issued no upload; once it reads the first local file
\* every listed record that had to be pulled has been requested, and written
\* or failed; and from the uploads loop it never goes back to a download.
PhaseOrder ==
    [][\A d \in Devices, s \in Slots :
          LET ps == pass[d][s]
              qs == pass'[d][s]
          IN  /\ qs.pc \in {"list", "download", "write"} => qs.pushed = {}
              /\ Uploading(ps) => qs.pc \notin {"download", "write"}
              /\ (~Uploading(ps) /\ Uploading(qs))
                    => /\ qs.dl = {}
                       /\ \A p \in DOMAIN qs.remoteFiles :
                              NeedsDownload(qs.meta0, qs.remoteFiles, p)
                                  => p \in qs.tried]_vars

\* a pass that pulled one record is uploading another file
PhaseOrderWitness ==
    \E s \in Slots :
        /\ pass["A"][s].pc = "upload"
        /\ pass["A"][s].tried # {}
        /\ pass["A"][s].cur \notin pass["A"][s].tried

\* C29: a file the user wrote while the pass awaited the download of its
\* live record is not just overwritten: a step of the pass that replaces or removes
\* its text leaves a merge of that text with a remote text, or a conflict copy
\* holding it.
RacedEditKept ==
    [][\A d \in Devices, s \in Slots :
          LET ps == pass[d][s]
              p == ps.cur
          IN  (/\ ps.pc = "write"
               /\ p \in ps.raced
               /\ ~ps.remoteFiles[p].isDeleted
               /\ p \in DOMAIN local[d]
               /\ edits' = edits
               /\ p \notin DOMAIN local'[d] \/ local'[d][p] # local[d][p])
              => \/ /\ p \in DOMAIN local'[d]
                    /\ \E r \in RemoteTexts(p) :
                           local'[d][p] = Merged(local[d][p], r)
                 \/ \E q \in DOMAIN local'[d] :
                        /\ q.base = p.base
                        /\ q.ts > 0
                        /\ local'[d][q] = local[d][p]]_vars

\* C30: when the file was written while its upload was in flight, an accepted
\* upload records the digest of the text that was sent, which is not the
\* digest of the file; and a pass that then finds the file's digest different
\* from the recorded one, the listing showing the recorded revision with the
\* text that was sent, uploads the file's newer text on top of that revision.
UploadRaceDigest ==
    [][\A d \in Devices, s \in Slots :
          LET ps == pass[d][s]
              p == ps.cur
          IN  /\ (/\ ps.pc = "upload"
                  /\ pass'[d][s].pc # "upload"
                  /\ remote' # remote
                  /\ p \in DOMAIN local[d]
                  /\ local[d][p] # ps.content)
                    => /\ meta'[d][p].hash = calculateHash(ps.content)
                       /\ meta'[d][p].hash # calculateHash(local'[d][p])
                       /\ meta'[d][p].revision = Len(remote'[p])
              /\ (/\ ReadStep(d, s)
                  /\ p \in DOMAIN local[d]
                  /\ p \in DOMAIN meta[d]
                  /\ p \in DOMAIN ps.remoteFiles
                  /\ ps.remoteFiles[p].revision = meta[d][p].revision
                  /\ ps.remoteFiles[p].hash = meta[d][p].hash
                  /\ meta[d][p].hash # calculateHash(local[d][p]))
                    => /\ pass'[d][s].pc = "upload"
                       /\ pass'[d][s].content = local[d][p]
                       /\ pass'[d][s].parentRevision = meta[d][p].revision]_vars

\* the note was rewritten while its first upload was in flight: the store and
\* the entry hold the text that was sent, the file the newer one
UploadRaceWitness ==
    LET p == OrigPath(BaseSeq[1])
    IN  \E s \in Slots :
            /\ pass["A"][s].pc = "save"
            /\ p \in pass["A"][s].raced
            /\ p \in pass["A"][s].pushed
            /\ remote[p] = <<[content |-> <<"y">>, isDeleted |-> FALSE]>>
            /\ meta["A"][p].hash = calculateHash(<<"y">>)
            /\ meta["A"][p].revision = 1
            /\ local["A"][p] = <<"x">>

GuardCoversPass ==
    \A d \in Devices :
        InFlight(d) # {} => isSyncing[d] /\ Cardinality(InFlight(d)) = 1

\* C24: whenever a token is configured, present at load or entered later, the
\* auto-sync timer is running.
TimerWhenToken == \A d \in Devices : token[d] => timerOn[d]

NoLostUpdate ==
    [][\A d \in Devices, s \in Slots :
          LET ps == pass[d][s]
              q == ps.cur
              recorded == IF q \in DOMAIN meta[d] THEN meta[d][q].revision
                          ELSE 0
          IN  /\ ps.pc = "upload" /\ pass'[d][s].pc # "upload" /\ remote' # remote
                    => /\ ps.parentRevision = recorded
                       /\ Len(remote'[q]) = recorded + 1
                       /\ \A r \in DOMAIN remote \ {q} : remote'[r] = remote[r]
              /\ \A r \in DOMAIN meta'[d] :
                    (r \notin DOMAIN meta[d]
                        \/ meta'[d][r].revision # meta[d][r].revision)
                    => \E t \in Slots :
                          /\ pass[d][t].cur = r
                          /\ \/ /\ pass[d][t].pc = "write"
                                /\ meta'[d][r].revision
                                       = pass[d][t].remoteFiles[r].revision
                             \/ /\ pass[d][t].pc = "upload"
                                /\ remote' # remote
                                /\ meta'[d][r].revision = Len(remote'[r])
      ]_vars

\* device B has replaced revision 1 of a note, which A's SyncMeta still
\* records, by its own upload after having recorded revision 1 itself
NoLostUpdateWitness ==
    \E p \in UserPaths :
        /\ p \in DOMAIN remote /\ Len(remote[p]) = 2
        /\ remote[p][1].content # remote[p][2].content
        /\ ~remote[p][2].isDeleted
        /\ p \in DOMAIN meta["A"] /\ meta["A"][p].revision = 1
        /\ p \in DOMAIN meta["B"] /\ meta["B"][p].revision = 2
        /\ meta["B"][p].hash = calculateHash(remote[p][2].content)

\* the store has never held the text of the file
Unsent(d, p) == p \notin DOMAIN remote \/ local[d][p] \notin RemoteTexts(p)

\* C32: a modification whose debounced request the guard refused is uploaded
\* or kept in a conflict copy by a later pass. No local event following it,
\* the text stays in the file until the store holds it, unless a step of the
\* plugin moves it to a conflict copy.
RefusedEditKept ==
    [][\A d \in Devices : \A p \in DOMAIN local[d] :
          (/\ debouncer[d].refused
           /\ Unsent(d, p)
           /\ edits' = edits
           /\ p \notin DOMAIN local'[d] \/ local'[d][p] # local[d][p])
          => \E q \in DOMAIN local'[d] :
                 /\ q.base = p.base
                 /\ q.ts > 0
                 /\ local'[d][q] = local[d][p]]_vars

\* the sockets of the client that are connecting or open
Live == {i \in Sockets : wsClient.sock[i] \in {"CONNECTING", "OPEN"}}

\* C33: after disconnect() and until connect() is called again, no reconnect
\* timer is pending and no connection is opened.
QuietAfterDisconnect ==
    [][wsClient.disconnected =>
          /\ wsClient.timers = <<>>
          /\ wsClient'.disconnected => wsClient'.made = wsClient.made]_vars

OneLiveSocket == Cardinality(Live) <= 1

\* C36: at most one heartbeat interval is active, and none after disconnect().
OneHeartbeat ==
    /\ wsClient.heartbeats <= 1
    /\ wsClient.disconnected => wsClient.heartbeats = 0

\* C37: without a token a performSync request does nothing. A request made by
\* the ribbon or the command, by the timer or by the debouncer while no token
\* is configured starts no pass (so no remote call is issued), changes no
\* SyncMeta entry and no file, and leaves the guard and the store as they are.
NoTokenNoPass ==
    [][\A d \in Devices :
          (~token[d] /\ (ManualSync(d) \/ TimerFire(d) \/ DebounceFire(d)))
          => UNCHANGED <<pass, isSyncing, status, meta, saved, local, remote>>
      ]_vars

\* device A has no token; a vault event armed the debouncer, and the request
\* has been made: no pass is in flight and the guard is clear
NoTokenWitness ==
    /\ ~token["A"]
    /\ edits = 1
    /\ debouncer["A"].calls = 1
    /\ ~debounce["A"]
    /\ InFlight("A") = {}
    /\ ~isSyncing["A"]
    /\ timerOn["A"]

\* the file name up to its last ".", the whole name if it has none
NameBase(t) ==
    IF lastIndexOf(t, ".") = -1 THEN t ELSE SubSeq(t, 1, lastIndexOf(t, "."))

\* C38: the conflict path of any file path lies in the folder of the original,
\* its file name is the original's up to the extension followed by
\* ".conflict-<timestamp>." and the extension, and it differs from the
\* original.
ConflictPathForm ==
    conflictCopy.result # <<>> =>
        LET path == conflictCopy.path
            result == conflictCopy.result
            name == NameOf(path)
        IN  /\ FolderOf(result) = FolderOf(path)
            /\ \E stamp \in StampTexts :
                   NameOf(result) = NameBase(name) \o <<".", "conflict-">>
                                       \o stamp \o <<".">>
                                       \o SubSeq(name, Len(NameBase(name)) + 2,
                                                 Len(name))
            /\ result # path

====
